---- MODULE Spec2Model ----
(***************************************************************************)
(* OpenCowork: the provider process manager (LLMProvider and its           *)
(* variants), the provider registry (ProviderManager) and the task         *)
(* execution engine (TaskExecutor), as state machines.                     *)
(*                                                                         *)
(* An async method is cut at the awaits that really suspend it (a timer,   *)
(* a pipe event); an await of a promise that is already settled is part    *)
(* of the same step, since no timer or I/O callback can run in between.    *)
(* One caller issues the calls and awaits each before the next one.        *)
(***************************************************************************)
EXTENDS Integers, Sequences, FiniteSets, TLC

\* ---------------------------------------------------------------- bounds
MaxInst == 2
MaxProc == 2
MaxCalls == 2
MaxBuf == 1
MaxSteps == 3
MaxTasks == 1
MaxReply == 3

\* ---------------------------------------------------- program constants
Null == 0
DefaultTimeout == 30000
OllamaTimeout == 60000
PlanTimeout == 30000
StepTimeout == 60000
SummaryTimeout == 30000
BaseReadyDelay == 1000
ClaudeReadyDelay == 3000
OllamaReadyDelay == 10000
OpenAIReadyDelay == 1000
MockStartDelay == 1000
MockThinkDelay == 1500
OllamaMarkerLen == 3

Kinds == {"base", "claude-code", "ollama", "openai", "mock"}
\* the classes a caller can register under their own name
Names == {"claude-code", "ollama", "openai", "mock"}
\* the commands that initialize() probes with isAvailable
ProbedClis == {"claude-code", "ollama", "openai", "gcloud"}
\* characters on the pipes: a prompt marker character and white space
Chars == {">", " "}
\* timeouts a caller passes to prompt(); 0 stands for "no timeout option"
Timeouts == {0, 30000, 60000}
MockResponse == <<"m">>
\* what a prompt() returns to the engine: a summary may be the empty string
Replies == {"", "Hello! I am an agent."}
Outputs == {"Hello! I am an agent."}
\* what a prompt() throws at the engine
SendErrors == {"Timeout"}
NoActiveMsg == "No active provider set. Call setActive() first."
PlanTypeError == "Cannot read properties of undefined (reading 'length')"
CriticalPrefix == "Critical step failed: "
Descriptions == {"Say hello"}
\* characters of a planning reply: braces, "s" for the member "steps": [...] of
\* a JSON object, "x" for any text that is not JSON
PlanChars == {"{", "}", "s", "x"}

VARIABLES
    prov,            \* instance -> [kind, process, isReady, apiKey]
    procs,           \* child process -> [owner, state, ended]
    calls,           \* the promises made by LLMProvider.prompt, with their closures
    op,              \* the call in progress (its async frame)
    last,            \* the outcome of the last call that finished
    log,             \* what the current/last call did, in order: the methods it
                     \* invoked (terminate, spawn), the signals it sent (kill), the
                     \* processes it created (fork), its writes to an input pipe
    providers,       \* ProviderManager.providers (registered names)
    activeProvider,  \* ProviderManager.activeProvider
    tasks,           \* the task objects created by TaskExecutor.executeTask; trail
                     \* is the sequence of values assigned to task.status
    currentTask,     \* TaskExecutor.currentTask
    taskHistory,     \* TaskExecutor.taskHistory
    eng,             \* the executeTask call in progress (its async frame)
    eng2,            \* the frame of an executeTask call made by a second caller
    backend,         \* what the backend answers: any reply (NoBackend), or the one
                     \* reply it gives to every prompt()
    probe,           \* the isAvailable call in progress, the host it runs on (the
                     \* commands on the search path, whether `which` can be run)
    acts             \* the frames of setActive calls that run interleaved

pvars == <<prov, procs, calls, op, last, log, providers, activeProvider, backend,
           probe, acts>>
evars == <<tasks, currentTask, taskHistory, eng, eng2>>
vars == <<prov, procs, calls, op, last, log, providers, activeProvider,
          tasks, currentTask, taskHistory, eng, eng2, backend, probe, acts>>

Insts == 1..MaxInst
Procs == 1..MaxProc

Min(S) == CHOOSE x \in S : \A y \in S : x <= y

\* String.prototype.trim on a sequence of characters
RECURSIVE TrimLeft(_)
TrimLeft(s) == IF s # <<>> /\ Head(s) = " " THEN TrimLeft(Tail(s)) ELSE s

RECURSIVE TrimRight(_)
TrimRight(s) ==
    IF s # <<>> /\ s[Len(s)] = " " THEN TrimRight(SubSeq(s, 1, Len(s) - 1)) ELSE s

Trim(s) == TrimRight(TrimLeft(s))

NoInst == [kind |-> "none", process |-> Null, isReady |-> FALSE, apiKey |-> FALSE]
NoProc == [owner |-> Null, state |-> "none", ended |-> FALSE]

NoBackend == [text |-> <<>>, steps |-> <<>>]

\* the callers of the engine and of the registry that may overlap
Callers == {1, 2}

NoActs == [c \in Callers |-> [pc |-> "idle", name |-> "none", key |-> FALSE,
                              inst |-> Null, res |-> "none"]]

NoProbe ==
    [pc |-> "idle", caller |-> "none", k |-> 0, cli |-> "none", onPath |-> {},
     whichRuns |-> TRUE, res |-> "none"]

Idle ==
    [name |-> "idle", pc |-> "idle", inst |-> Null, timer |-> -1, T |-> 0,
     elapsed |-> 0, wasReady |-> FALSE, proc |-> Null, gt |-> 0, prev |-> Null]

NoLast ==
    [op |-> "none", inst |-> Null, res |-> "none", text |-> <<>>,
     wasReady |-> FALSE, prev |-> Null]

\* the provider and registry state as one value, so that a method that calls
\* other methods is the composition of their effects
Cur ==
    [prov |-> prov, procs |-> procs, calls |-> calls, op |-> op,
     last |-> last, log |-> log, providers |-> providers,
     activeProvider |-> activeProvider]

Become(s) ==
    /\ prov' = s.prov
    /\ procs' = s.procs
    /\ calls' = s.calls
    /\ op' = s.op
    /\ last' = s.last
    /\ log' = s.log
    /\ providers' = s.providers
    /\ activeProvider' = s.activeProvider
    /\ UNCHANGED backend
    /\ UNCHANGED probe
    /\ UNCHANGED acts
    /\ UNCHANGED evars

\* a call returns or throws: the frame is gone and the outcome is recorded
Finish(s, res, text) ==
    [s EXCEPT !.op = Idle,
              !.last = [op |-> s.op.name, inst |-> s.op.inst, res |-> res,
                        text |-> text, wasReady |-> s.op.wasReady,
                        prev |-> s.op.prev]]

\* the instance can take a prompt: a running process and the ready flag (the
\* mock has no process)
IsReady(s, i) ==
    IF s.prov[i].kind = "mock"
    THEN s.prov[i].isReady
    ELSE s.prov[i].process # Null /\ s.prov[i].isReady

\* a top-level call begins
Enter(s, name, i, T) ==
    [s EXCEPT !.op = [Idle EXCEPT !.name = name, !.inst = i, !.T = T,
                                  !.wasReady = IF i = Null THEN FALSE
                                               ELSE IsReady(s, i),
                                  !.prev = s.activeProvider],
              !.last = NoLast,
              !.log = <<>>]

Logged(s, m, i) == [s EXCEPT !.log = Append(@, <<m, i>>)]

FreeProcs(s) == {p \in Procs : s.procs[p].state = "none"}
FreeInsts(s) == {i \in Insts : s.prov[i].kind = "none"}

ReadyDelay(k) ==
    CASE k = "claude-code" -> ClaudeReadyDelay
      [] k = "ollama" -> OllamaReadyDelay
      [] k = "openai" -> OpenAIReadyDelay
      [] OTHER -> BaseReadyDelay

\* ------------------------------------------------------------ terminate
\* LLMProvider.terminate / MockProvider.terminate
Terminate(s, i) ==
    LET t == Logged(s, "terminate", i)
        p == s.prov[i].process
    IN  IF s.prov[i].kind = "mock"
        THEN [t EXCEPT !.prov[i].isReady = FALSE]
        ELSE IF p # Null
             THEN [Logged(t, "kill", i) EXCEPT !.prov[i].process = Null,
                                               !.prov[i].isReady = FALSE]
             ELSE t

\* ---------------------------------------------------------------- spawn
\* whether spawn() on instance i gets as far as child_process.spawn
SpawnsProcess(s, i) ==
    /\ s.prov[i].kind # "mock"
    /\ ~(s.prov[i].kind = "openai" /\ ~s.prov[i].apiKey)
    /\ s.prov[i].process = Null

\* spawn() without its "already running" check
SpawnStartNoCheck(s, i) ==
    LET t == Logged(s, "spawn", i)
        k == s.prov[i].kind
    IN  IF k = "mock"
        THEN [t EXCEPT !.op.pc = "mockStart", !.op.timer = MockStartDelay]
        ELSE IF k = "openai" /\ ~s.prov[i].apiKey
        THEN Finish(t, "apiKey", <<>>)
        ELSE IF FreeProcs(s) = {}
        THEN Finish(t, "alreadyRunning", <<>>)
        ELSE LET p == Min(FreeProcs(s))
             IN  [Logged(t, "fork", i) EXCEPT
                           !.prov[i].process = p,
                           !.procs[p] = [owner |-> i, state |-> "running",
                                         ended |-> FALSE],
                           !.op.pc = "waitReady",
                           !.op.timer = ReadyDelay(k),
                           !.op.proc = p,
                           !.op.gt = 0]

\* LLMProvider.spawn up to its await (MockProvider.spawn, OpenAIProvider.spawn)
SpawnStart(s, i) ==
    LET t == Logged(s, "spawn", i)
        k == s.prov[i].kind
    IN  IF k = "mock"
        THEN [t EXCEPT !.op.pc = "mockStart", !.op.timer = MockStartDelay]
        ELSE IF k = "openai" /\ ~s.prov[i].apiKey
        THEN Finish(t, "apiKey", <<>>)
        ELSE IF s.prov[i].process # Null
        THEN Finish(t, "alreadyRunning", <<>>)
        ELSE LET p == Min(FreeProcs(s))
             IN  [Logged(t, "fork", i) EXCEPT
                           !.prov[i].process = p,
                           !.procs[p] = [owner |-> i, state |-> "running",
                                         ended |-> FALSE],
                           !.op.pc = "waitReady",
                           !.op.timer = ReadyDelay(k),
                           !.op.proc = p,
                           !.op.gt = 0]

\* ---------------------------------------------------------------- prompt
\* the options LLMProvider.prompt receives from the variant's prompt
OptionsTimeout(k, T) == IF k = "ollama" THEN OllamaTimeout ELSE T

\* options.timeout || 30000
TimerDelay(t) == IF t = 0 THEN DefaultTimeout ELSE t

\* prompt() that tests the ready flag alone
BasePromptFlagOnly(s) ==
    LET i == s.op.inst
        p == s.prov[i].process
        t == Logged(s, "write", i)
    IN  IF ~s.prov[i].isReady
        THEN Finish(s, "notReady", <<>>)
        ELSE [t EXCEPT !.calls = Append(@,
                          [inst |-> i, proc |-> p, output |-> <<>>, error |-> <<>>,
                           timer |-> TimerDelay(OptionsTimeout(s.prov[i].kind, s.op.T)),
                           endListener |-> TRUE, state |-> "pending"]),
                       !.op.pc = "promptWait",
                       !.op.timer = -1]

\* LLMProvider.prompt up to the promise it returns
BasePrompt(s) ==
    LET i == s.op.inst
        p == s.prov[i].process
        t == Logged(s, "write", i)
    IN  IF p = Null \/ ~s.prov[i].isReady
        THEN Finish(s, "notReady", <<>>)
        ELSE [t EXCEPT !.calls = Append(@,
                          [inst |-> i, proc |-> p, output |-> <<>>, error |-> <<>>,
                           timer |-> TimerDelay(OptionsTimeout(s.prov[i].kind, s.op.T)),
                           endListener |-> TRUE, state |-> "pending"]),
                       !.op.pc = "promptWait",
                       !.op.timer = -1]

\* the prompt() of the instance's class, up to its first suspension
Prompt(s, i) ==
    LET k == s.prov[i].kind
    IN  IF k = "mock"
        THEN [s EXCEPT !.op.pc = "mockThink", !.op.timer = MockThinkDelay]
        ELSE IF k = "base"
        THEN BasePrompt(s)
        ELSE IF s.prov[i].process = Null \/ ~s.prov[i].isReady
        THEN SpawnStart(s, i)
        ELSE BasePrompt(s)

\* spawn() that returns after waitForReady without setting the ready flag
SpawnResumeNoFlag(s) ==
    LET t == [s EXCEPT !.op.timer = -1]
    IN  IF s.op.name = "prompt" THEN BasePrompt(t) ELSE Finish(t, "ok", <<>>)

\* spawn() resumes after waitForReady (or the mock's start-up delay)
SpawnResume(s) ==
    LET i == s.op.inst
        t == Logged([s EXCEPT !.prov[i].isReady = TRUE, !.op.timer = -1],
                    "ready", i)
    IN  IF s.op.name = "prompt" THEN BasePrompt(t) ELSE Finish(t, "ok", <<>>)

\* --------------------------------------------------------------- registry
\* createProvider() that falls back to a registered class for an unknown name
CreateProviderAny(s, name, key) ==
    IF s.providers = {} \/ FreeInsts(s) = {}
    THEN [st |-> s, inst |-> Null]
    ELSE LET n == IF name \in s.providers THEN name
                  ELSE CHOOSE x \in s.providers : TRUE
             i == Min(FreeInsts(s))
         IN  [st |-> [s EXCEPT !.prov[i] = [kind |-> n, process |-> Null,
                                            isReady |-> FALSE,
                                            apiKey |-> key /\ n = "openai"]],
              inst |-> i]

\* ProviderManager.createProvider: the new instance, or Null when it throws
CreateProvider(s, name, key) ==
    IF name \notin s.providers
    THEN [st |-> s, inst |-> Null]
    ELSE LET i == Min(FreeInsts(s))
         IN  [st |-> [s EXCEPT !.prov[i] = [kind |-> name, process |-> Null,
                                            isReady |-> FALSE,
                                            apiKey |-> key /\ name = "openai"]],
              inst |-> i]

\* ProviderManager.createProvider called by the registry's user
CreateProviderBody(s, name, key) ==
    LET c == CreateProvider(Enter(s, "createProvider", Null, 0), name, key)
    IN  IF c.inst = Null
        THEN Finish(c.st, "notFound", <<>>)
        ELSE Finish([c.st EXCEPT !.op.inst = c.inst], "ok", <<>>)

\* setActive() that does not stop the provider it replaces
SetActiveNoStop(s, name, key) ==
    LET s0 == Enter(s, "setActive", Null, 0)
        c == CreateProvider(s0, name, key)
    IN  IF c.inst = Null
        THEN Finish(c.st, "notFound", <<>>)
        ELSE SpawnStart([c.st EXCEPT !.activeProvider = c.inst, !.op.inst = c.inst],
                        c.inst)

\* ProviderManager.setActive up to the await inside spawn()
SetActiveBody(s, name, key) ==
    LET s0 == Enter(s, "setActive", Null, 0)
        s1 == IF s.activeProvider # Null THEN Terminate(s0, s.activeProvider) ELSE s0
        c == CreateProvider(s1, name, key)
    IN  IF c.inst = Null
        THEN Finish(c.st, "notFound", <<>>)
        ELSE SpawnStart([c.st EXCEPT !.activeProvider = c.inst, !.op.inst = c.inst],
                        c.inst)

\* cleanup() that stops the provider and keeps the active reference
CleanupKeepsActive(s) ==
    LET s0 == Enter(s, "cleanup", s.activeProvider, 0)
    IN  IF s.activeProvider # Null
        THEN Finish(Terminate(s0, s.activeProvider), "ok", <<>>)
        ELSE Finish(s0, "ok", <<>>)

\* ProviderManager.cleanup
CleanupBody(s) ==
    LET s0 == Enter(s, "cleanup", s.activeProvider, 0)
    IN  IF s.activeProvider # Null
        THEN Finish([Terminate(s0, s.activeProvider) EXCEPT !.activeProvider = Null],
                    "ok", <<>>)
        ELSE Finish(s0, "ok", <<>>)

\* ProviderManager.getActive
GetActiveBody(s) ==
    LET s0 == Enter(s, "getActive", s.activeProvider, 0)
    IN  IF s.activeProvider = Null
        THEN Finish(s0, "noActive", <<>>)
        ELSE Finish(s0, "ok", <<>>)

\* initialize() that registers the Claude Code and Ollama classes unprobed
InitializeAll(s, probes) ==
    Finish([Enter(s, "initialize", Null, 0) EXCEPT
               !.providers = @ \cup {"claude-code", "ollama", "mock"}],
           "ok", <<>>)

\* ProviderManager.initialize, given what isAvailable returns for each command
InitializeBody(s, probes) ==
    Finish([Enter(s, "initialize", Null, 0) EXCEPT
               !.providers = @ \cup {n \in {"claude-code", "ollama"} : probes[n]}
                               \cup {"mock"}],
           "ok", <<>>)

\* ------------------------------------------------------ caller's actions
Initialize(probes) ==
    /\ op.name = "idle"
    /\ Become(InitializeBody(Cur, probes))

RegisterProvider(name) ==
    /\ op.name = "idle"
    /\ name \notin providers
    /\ Become([Cur EXCEPT !.providers = @ \cup {name}])

SetActive(name, key) ==
    /\ op.name = "idle"
    /\ name \in providers => FreeInsts(Cur) # {}
    /\ (name \in providers /\ name # "mock" /\ ~(name = "openai" /\ ~key))
          => FreeProcs(Cur) # {}
    /\ Become(SetActiveBody(Cur, name, key))

\* setActive while the active provider's process cannot be signalled: kill()
\* emits 'error' on the child, the provider's handler re-emits it on the
\* provider, which has no 'error' listener, so terminate() throws before it
\* clears anything and setActive rejects
SetActiveStopRaises(name, key) ==
    /\ op.name = "idle"
    /\ activeProvider # Null
    /\ prov[activeProvider].process # Null
    /\ procs[prov[activeProvider].process].state = "running"
    /\ LET s0 == Enter(Cur, "setActive", Null, 0)
           s1 == Logged(Logged(s0, "terminate", activeProvider),
                        "killFailed", activeProvider)
       IN  Become(Finish(s1, "threw", <<"kill EPERM">>))

Cleanup ==
    /\ op.name = "idle"
    /\ Become(CleanupBody(Cur))

GetActive ==
    /\ op.name = "idle"
    /\ Become(GetActiveBody(Cur))

CreateProviderCall(name, key) ==
    /\ op.name = "idle"
    /\ name \in providers => FreeInsts(Cur) # {}
    /\ Become(CreateProviderBody(Cur, name, key))

SpawnCall(i) ==
    /\ op.name = "idle"
    /\ prov[i].kind # "none"
    /\ SpawnsProcess(Cur, i) => FreeProcs(Cur) # {}
    /\ Become(SpawnStart(Enter(Cur, "spawn", i, 0), i))

PromptCall(i, T) ==
    /\ op.name = "idle"
    /\ prov[i].kind # "none"
    /\ prov[i].kind # "mock" => Len(calls) < MaxCalls
    /\ (prov[i].kind \notin {"mock", "base"} /\ SpawnsProcess(Cur, i))
          => FreeProcs(Cur) # {}
    /\ Become(Prompt(Enter(Cur, "prompt", i, T), i))

TerminateCall(i) ==
    /\ op.name = "idle"
    /\ prov[i].kind # "none"
    /\ Become(Finish(Terminate(Enter(Cur, "terminate", i, 0), i), "ok", <<>>))

\* ------------------------------------------------ the world's actions
\* the promise of call c settles (once) and the caller awaiting it resumes; the
\* closure's buffers are dead from then on (only the 'end' listener reads them,
\* for a resolve/reject that a settled promise ignores) and are dropped
Settle(s, c, kind, text) ==
    IF s.calls[c].state # "pending"
    THEN s
    ELSE LET t == [s EXCEPT !.calls[c].state = "settled",
                            !.calls[c].output = <<>>,
                            !.calls[c].error = <<>>]
         IN  IF s.op.pc = "promptWait" THEN Finish(t, kind, text) ELSE t

\* an 'end' listener that never looks at the error buffer
OnEndIgnoringStderr(s, c) ==
    Settle([s EXCEPT !.calls[c].timer = -1, !.calls[c].endListener = FALSE],
           c, "ok", Trim(s.calls[c].output))

\* the 'end' listener of call c (LLMProvider.prompt)
OnEnd(s, c) ==
    LET t == [s EXCEPT !.calls[c].timer = -1, !.calls[c].endListener = FALSE]
    IN  IF s.calls[c].error # <<>>
        THEN Settle(t, c, "backend", s.calls[c].error)
        ELSE Settle(t, c, "ok", Trim(s.calls[c].output))

RECURSIVE OnEndAll(_, _)
OnEndAll(s, cs) ==
    IF cs = {} THEN s
    ELSE LET c == Min(cs) IN OnEndAll(OnEnd(s, c), cs \ {c})

\* a call record with no armed timer and no listener left can do nothing more
Live(c) == c.state = "pending" \/ c.endListener \/ c.timer >= 0

Sweep(s) == [s EXCEPT !.calls = SelectSeq(@, Live)]

\* the timeout callback of call c (LLMProvider.prompt)
OnTimeout(s, c) == Settle([s EXCEPT !.calls[c].timer = -1], c, "timeout", <<>>)

\* the calls whose closure buffers can still be read: a settled promise ignores
\* what its 'end' listener computes from them
Listening(p) ==
    {c \in 1..Len(calls) : calls[c].proc = p /\ calls[c].state = "pending"}

\* waitForReady of ClaudeCodeProvider / OllamaProvider listens on this pipe
ReadyListener(p) ==
    /\ op.pc = "waitReady"
    /\ op.proc = p
    /\ prov[op.inst].kind \in {"claude-code", "ollama"}

\* a chunk arrives on the output pipe
Data(p, ch) ==
    /\ procs[p].state = "running"
    /\ ~procs[p].ended
    /\ Listening(p) # {} \/ ReadyListener(p)
    /\ \A c \in Listening(p) : Len(calls[c].output) < MaxBuf
    /\ LET s1 == [Cur EXCEPT !.calls = [c \in 1..Len(calls) |->
                        IF c \in Listening(p)
                        THEN [calls[c] EXCEPT !.output = Append(@, ch)]
                        ELSE calls[c]]]
           gt1 == IF ch = ">" THEN op.gt + 1 ELSE 0
       IN  IF ~ReadyListener(p)
           THEN Become(s1)
           ELSE IF prov[op.inst].kind = "claude-code"
           THEN IF ch = ">" THEN Become(SpawnResume(s1)) ELSE Become(s1)
           ELSE IF gt1 >= OllamaMarkerLen
                THEN Become(SpawnResume(s1))
                ELSE Become([s1 EXCEPT !.op.gt = gt1])

\* the calls on process p whose promise the timeout settled: their request
\* was written, and the backend may still answer it
TimedOut(p) ==
    {c \in 1..Len(calls) : /\ calls[c].proc = p
                           /\ calls[c].state = "settled"
                           /\ calls[c].endListener}

\* a chunk of the backend's answer to a request whose prompt() has timed out
LateChunk == "~"

\* such a chunk arrives on the output pipe: the 'data' listeners of the calls
\* that are pending now append it
LateData(p) ==
    /\ procs[p].state = "running"
    /\ ~procs[p].ended
    /\ TimedOut(p) # {}
    /\ Listening(p) # {}
    /\ \A c \in Listening(p) : Len(calls[c].output) < MaxBuf
    /\ Become([Cur EXCEPT !.calls = [c \in 1..Len(calls) |->
                        IF c \in Listening(p)
                        THEN [calls[c] EXCEPT !.output = Append(@, LateChunk)]
                        ELSE calls[c]]])

\* a chunk arrives on the error pipe
ErrData(p, ch) ==
    /\ procs[p].state = "running"
    /\ Listening(p) # {}
    /\ \A c \in Listening(p) : Len(calls[c].error) < MaxBuf
    /\ Become([Cur EXCEPT !.calls = [c \in 1..Len(calls) |->
                        IF c \in Listening(p)
                        THEN [calls[c] EXCEPT !.error = Append(@, ch)]
                        ELSE calls[c]]])

\* an output pipe that can end again and again
StdoutEndAgain(p) ==
    /\ procs[p].state = "running"
    /\ Become(Sweep(OnEndAll(Cur,
                 {c \in 1..Len(calls) : calls[c].proc = p /\ calls[c].endListener})))

\* the output pipe ends: every 'end' listener registered on it runs, once
StdoutEnd(p) ==
    /\ procs[p].state = "running"
    /\ ~procs[p].ended
    /\ Become(Sweep(OnEndAll([Cur EXCEPT !.procs[p].ended = TRUE],
                 {c \in 1..Len(calls) : calls[c].proc = p /\ calls[c].endListener})))

\* a call on process p when the process is gone: its listeners on the pipes
\* are gone, its timeout is still armed
Detached(c, p) ==
    IF c.proc = p THEN [c EXCEPT !.proc = Null, !.endListener = FALSE] ELSE c

\* the 'close' handler registered by LLMProvider.spawn; the process and its
\* pipes are gone, and with them the listeners left on the pipes
Close(p) ==
    /\ procs[p].state = "running"
    /\ procs[p].ended
    /\ Become([Cur EXCEPT !.procs[p] = NoProc,
                          !.calls = SelectSeq([c \in 1..Len(@) |-> Detached(@[c], p)],
                                              Live),
                          !.prov[procs[p].owner].process = Null,
                          !.prov[procs[p].owner].isReady = FALSE])

\* the timeout of a prompt() call fires
CallTimeout(c) ==
    /\ c \in 1..Len(calls)
    /\ calls[c].timer = 0
    /\ Become(Sweep(OnTimeout(Cur, c)))

\* timers of which waitForReady's fallback never fires
FrameTimerNoFallback ==
    /\ op.timer = 0
    /\ \/ /\ op.pc = "mockStart"
          /\ Become(SpawnResume(Cur))
       \/ /\ op.pc = "mockThink"
          /\ Become(Finish(Cur, "ok", MockResponse))

\* the timer the frame is waiting on fires: waitForReady's fallback, the mock's
\* start-up delay, the mock's thinking time
FrameTimer ==
    /\ op.timer = 0
    /\ \/ /\ op.pc \in {"waitReady", "mockStart"}
          /\ Become(SpawnResume(Cur))
       \/ /\ op.pc = "mockThink"
          /\ Become(Finish(Cur, "ok", MockResponse))

ArmedTimers ==
    {calls[c].timer : c \in {d \in 1..Len(calls) : calls[d].timer >= 0}}
        \cup (IF op.timer >= 0 THEN {op.timer} ELSE {})

\* time passes until the next timer is due; a due timer fires before time moves on
Advance ==
    /\ ArmedTimers # {}
    /\ 0 \notin ArmedTimers
    /\ LET d == Min(ArmedTimers)
       IN  Become([Cur EXCEPT
              !.calls = [c \in 1..Len(calls) |->
                            IF calls[c].timer >= 0
                            THEN [calls[c] EXCEPT !.timer = @ - d]
                            ELSE calls[c]],
              !.op.timer = IF @ >= 0 THEN @ - d ELSE @,
              !.op.elapsed = IF op.name = "prompt" THEN @ + d ELSE @])


\* ------------------------------------------------------------ the engine
\* the engine's state as one value
ECur ==
    [tasks |-> tasks, currentTask |-> currentTask, taskHistory |-> taskHistory,
     eng |-> eng]

EBecome(e) ==
    /\ tasks' = e.tasks
    /\ currentTask' = e.currentTask
    /\ taskHistory' = e.taskHistory
    /\ eng' = e.eng
    /\ UNCHANGED eng2
    /\ UNCHANGED pvars

EngIdle == [pc |-> "idle", t |-> Null, i |-> 0, res |-> "none"]

Step(id, desc, type, optional, deps) ==
    [id |-> id, description |-> desc, type |-> type, optional |-> optional,
     dependencies |-> deps]

\* the step lists a backend can plan: step k has id k and is optional or not
RECURSIVE StepLists(_)
StepLists(n) ==
    IF n = 0 THEN {<<>>}
    ELSE LET shorter == StepLists(n - 1)
         IN  shorter \cup
             {Append(st, Step(Len(st) + 1, "step", "system", o, {})) :
                 st \in {x \in shorter : Len(x) = n - 1}, o \in BOOLEAN}

RECURSIVE Texts(_)
Texts(n) ==
    IF n = 0 THEN {<<>>}
    ELSE LET shorter == Texts(n - 1)
         IN  shorter \cup {Append(t, c) : t \in {x \in shorter : Len(x) = n - 1},
                                          c \in PlanChars}

Max(S) == CHOOSE x \in S : \A y \in S : x >= y

\* planResponse.match(/\{[\s\S]*\}/): from the first "{" to the last "}" after
\* it; <<>> when there is no match
JsonMatch(text) ==
    LET opens == {i \in 1..Len(text) : text[i] = "{"}
    IN  IF opens = {} THEN <<>>
        ELSE LET a == Min(opens)
                 closes == {j \in (a + 1)..Len(text) : text[j] = "}"}
             IN  IF closes = {} THEN <<>> ELSE SubSeq(text, a, Max(closes))

\* whether JSON.parse accepts the text: an object with or without the member
EmptyObject == <<"{", "}">>
PlanObject == <<"{", "s", "}">>
JsonParses(m) == m \in {EmptyObject, PlanObject}

\* whether the reply carries a plan object for createExecutionPlan to return
YieldsPlan(text) == JsonMatch(text) = PlanObject

\* the planning replies of a backend: a text, and the step list that the
\* member "steps" of the text stands for
PlanReplies ==
    {[text |-> t, steps |-> <<>>] : t \in {x \in Texts(MaxReply) : ~YieldsPlan(x)}}
        \cup {[text |-> t, steps |-> st] :
                 t \in {x \in Texts(MaxReply) : YieldsPlan(x)},
                 st \in StepLists(MaxSteps)}

\* a fallback plan of one step
CreateFallbackPlanShort(desc) ==
    [hasSteps |-> TRUE, steps |-> << Step(1, desc, "execution", FALSE, {}) >>]

\* TaskExecutor.createFallbackPlan
CreateFallbackPlan(desc) ==
    [hasSteps |-> TRUE,
     steps |-> << Step(1, "Analyze the task requirements", "analysis", FALSE, {}),
                  Step(2, desc, "execution", FALSE, {1}) >>]

\* the try/catch of TaskExecutor.createExecutionPlan on a reply
ParsePlan(reply, desc) ==
    LET m == JsonMatch(reply.text)
    IN  IF m = <<>> \/ ~JsonParses(m)
        THEN CreateFallbackPlan(desc)
        ELSE IF m = PlanObject
        THEN [hasSteps |-> TRUE, steps |-> reply.steps]
        ELSE [hasSteps |-> FALSE, steps |-> <<>>]

\* task.status = st
SetStatus(e, st) ==
    [e EXCEPT !.tasks[e.eng.t].status = st, !.tasks[e.eng.t].trail = Append(@, st)]

\* this.providerManager.getActive() gave the instance the frame's next
\* prompt() goes to
Sent(e) == [e EXCEPT !.tasks[e.eng.t].sentTo = Append(@, activeProvider)]

\* this.emit(ev, ...) about the task of the frame
Emit(e, ev) == [e EXCEPT !.tasks[e.eng.t].events = Append(@, ev)]

\* a catch block that emits no 'taskFailed'
FailTaskSilent(e, msg) ==
    LET t == e.eng.t
    IN  [SetStatus(e, "failed") EXCEPT
                  !.tasks[t].error = msg,
                  !.tasks[t].endTime = TRUE,
                  !.eng = [EngIdle EXCEPT !.res = "threw"]]

\* a catch block that records the message and leaves the status alone
FailTaskKeepsStatus(e, msg) ==
    LET t == e.eng.t
    IN  [e EXCEPT !.tasks[t].error = msg,
                  !.tasks[t].endTime = TRUE,
                  !.eng = [EngIdle EXCEPT !.res = "threw"]]

\* the catch block of TaskExecutor.executeTask
FailTask(e, msg) ==
    LET t == e.eng.t
    IN  [Emit(SetStatus(e, "failed"), "taskFailed") EXCEPT
                  !.tasks[t].error = msg,
                  !.tasks[t].endTime = TRUE,
                  !.eng = [EngIdle EXCEPT !.res = "threw"]]

\* phase 3 that never sets the status 'finalizing'
FinalizeNoStatus(e) ==
    IF activeProvider = Null
    THEN FailTask(e, <<NoActiveMsg>>)
    ELSE [e EXCEPT !.eng.pc = "summary"]

\* phase 3 of TaskExecutor.executeTask up to the await in compileFinalResults
Finalize(e) ==
    LET e1 == Emit(SetStatus(e, "finalizing"), "taskStatusChanged")
    IN  IF activeProvider = Null
        THEN FailTask(e1, <<NoActiveMsg>>)
        ELSE Sent([e1 EXCEPT !.eng.pc = "summary"])

\* the outcome of TaskExecutor.executeStep
StepResult(step, ok, text) ==
    [stepId |-> step.id,
     status |-> IF ok THEN "completed" ELSE "failed",
     output |-> IF ok THEN text ELSE "null",
     error |-> IF ok THEN "null" ELSE text]

RECURSIVE RunSteps(_, _)

\* a loop body that goes on after a failed step whatever the step is
AfterStepTolerant(e, i, result) ==
    RunSteps([e EXCEPT !.tasks[e.eng.t].results = Append(@, result),
                       !.tasks[e.eng.t].notified =
                           Append(@, e.tasks[e.eng.t].steps[i + 1].id)], i + 1)

\* a loop body that gives up after a failed step whatever the step is
AfterStepStrict(e, i, result) ==
    LET e1 == [e EXCEPT !.tasks[e.eng.t].results = Append(@, result),
                        !.tasks[e.eng.t].notified =
                            Append(@, e.tasks[e.eng.t].steps[i + 1].id)]
    IN  IF result.status = "failed"
        THEN FailTask(e1, <<CriticalPrefix, result.error>>)
        ELSE RunSteps(e1, i + 1)

\* a loop body that records the result and emits no 'stepCompleted'
AfterStepUnnotified(e, i, result) ==
    LET t == e.eng.t
        e1 == [e EXCEPT !.tasks[t].results = Append(@, result)]
    IN  IF result.status = "failed" /\ ~e.tasks[t].steps[i + 1].optional
        THEN FailTask(e1, <<CriticalPrefix, result.error>>)
        ELSE RunSteps(e1, i + 1)

\* the loop body of TaskExecutor.executeTask after executeStep returned
AfterStep(e, i, result) ==
    LET t == e.eng.t
        e1 == Emit([e EXCEPT !.tasks[t].results = Append(@, result),
                             !.tasks[t].notified =
                                 Append(@, e.tasks[t].steps[i + 1].id)],
                   "stepCompleted")
    IN  IF result.status = "failed" /\ ~e.tasks[t].steps[i + 1].optional
        THEN FailTask(e1, <<CriticalPrefix, result.error>>)
        ELSE RunSteps(e1, i + 1)

\* the for loop of TaskExecutor.executeTask from index i up to the next await
RunSteps(e, i) ==
    LET t == e.eng.t
    IN  IF i < Len(e.tasks[t].steps)
        THEN IF activeProvider = Null
             THEN AfterStep(e, i, StepResult(e.tasks[t].steps[i + 1], FALSE,
                                             NoActiveMsg))
             ELSE Sent([e EXCEPT !.eng.pc = "step", !.eng.i = i])
        ELSE Finalize(e)

\* TaskExecutor.executeTask, in the frame e.eng, up to the await in
\* createExecutionPlan
ExecuteTaskBody(e0, desc) ==
    LET t == Len(e0.tasks) + 1
        task == [description |-> desc, status |-> "planning",
                 trail |-> <<"planning">>, steps |-> <<>>, hasSteps |-> TRUE,
                 results |-> <<>>, notified |-> <<>>, sentTo |-> <<>>,
                 events |-> <<"taskStarted">>, summary |-> "undefined",
                 error |-> <<>>, endTime |-> FALSE]
        e == Emit(SetStatus([e0 EXCEPT !.tasks = Append(@, task),
                                       !.currentTask = t,
                                       !.eng = [EngIdle EXCEPT !.pc = "plan",
                                                               !.t = t]],
                            "planning"),
                  "taskStatusChanged")
    IN  IF activeProvider = Null THEN FailTask(e, <<NoActiveMsg>>) ELSE Sent(e)

\* phase 1 ends with the reply, phase 2 runs to its first await
PlanReturnsBody(e0, reply) ==
    LET t == e0.eng.t
        plan == ParsePlan(reply, e0.tasks[t].description)
        e == [e0 EXCEPT !.tasks[t].steps = plan.steps,
                        !.tasks[t].hasSteps = plan.hasSteps]
    IN  IF ~plan.hasSteps
        THEN FailTask(e, <<PlanTypeError>>)
        ELSE RunSteps(Emit(SetStatus(e, "executing"), "taskStatusChanged"), 0)

\* a loop that marks the step it has executed
StepReturnsMarksStep(e, ok, text) ==
    AfterStep([e EXCEPT !.tasks[e.eng.t].steps[e.eng.i + 1].type = "done"],
              e.eng.i, StepResult(e.tasks[e.eng.t].steps[e.eng.i + 1], ok, text))

\* executeStep ends with a result and the loop goes on
StepReturnsBody(e, ok, text) ==
    AfterStep(e, e.eng.i, StepResult(e.tasks[e.eng.t].steps[e.eng.i + 1], ok, text))

\* an end of the try block that drops the summary
SummaryReturnsNoSummary(e, text) ==
    LET t == e.eng.t
    IN  [Emit(SetStatus(e, "completed"), "taskCompleted") EXCEPT
                      !.tasks[t].endTime = TRUE,
                      !.taskHistory = Append(@, t),
                      !.currentTask = Null,
                      !.eng = [EngIdle EXCEPT !.res = "returned"]]

\* compileFinalResults returned: the end of the try block
SummaryReturnsBody(e, text) ==
    LET t == e.eng.t
    IN  [Emit(SetStatus(e, "completed"), "taskCompleted") EXCEPT
                      !.tasks[t].summary = text,
                      !.tasks[t].endTime = TRUE,
                      !.taskHistory = Append(@, t),
                      !.currentTask = Null,
                      !.eng = [EngIdle EXCEPT !.res = "returned"]]

\* TaskExecutor.executeTask up to the await in createExecutionPlan
ExecuteTask(desc) ==
    /\ eng.pc = "idle"
    /\ Len(tasks) < MaxTasks
    /\ EBecome(ExecuteTaskBody(ECur, desc))

\* the planning prompt() fails
PlanFails(msg) ==
    /\ eng.pc = "plan"
    /\ EBecome(FailTask(ECur, <<msg>>))

\* the planning prompt() returns: phase 1 ends, phase 2 runs to its first await
PlanReturns(reply) ==
    /\ eng.pc = "plan"
    /\ EBecome(PlanReturnsBody(ECur, reply))

\* the prompt() of executeStep returns or fails, and the loop goes on
StepReturns(ok, text) ==
    /\ eng.pc = "step"
    /\ EBecome(StepReturnsBody(ECur, ok, text))

\* the summary prompt() fails
SummaryFails(msg) ==
    /\ eng.pc = "summary"
    /\ EBecome(FailTask(ECur, <<msg>>))

\* the summary prompt() returns: the task completes
SummaryReturns(text) ==
    /\ eng.pc = "summary"
    /\ EBecome(SummaryReturnsBody(ECur, text))

\* ------------------------------------------------- overlapping executeTask
\* two callers of one engine (two WebSocket messages 'executeTask'), each
\* calling executeTask once; the frame of caller c
Frame(c) == IF c = 1 THEN eng ELSE eng2
ECurOf(c) == [ECur EXCEPT !.eng = Frame(c)]

EBecomeOf(c, e) ==
    /\ tasks' = e.tasks
    /\ currentTask' = e.currentTask
    /\ taskHistory' = e.taskHistory
    /\ IF c = 1 THEN eng' = e.eng /\ UNCHANGED eng2
                ELSE eng2' = e.eng /\ UNCHANGED eng
    /\ UNCHANGED pvars

CallExecuteTask(c, desc) ==
    /\ Frame(c).pc = "idle"
    /\ Frame(c).res = "none"
    /\ EBecomeOf(c, ExecuteTaskBody(ECurOf(c), desc))

CallPlanFails(c, msg) ==
    /\ Frame(c).pc = "plan"
    /\ EBecomeOf(c, FailTask(ECurOf(c), <<msg>>))

CallPlanReturns(c, reply) ==
    /\ Frame(c).pc = "plan"
    /\ EBecomeOf(c, PlanReturnsBody(ECurOf(c), reply))

CallStepReturns(c, ok, text) ==
    /\ Frame(c).pc = "step"
    /\ EBecomeOf(c, StepReturnsBody(ECurOf(c), ok, text))

CallSummaryFails(c, msg) ==
    /\ Frame(c).pc = "summary"
    /\ EBecomeOf(c, FailTask(ECurOf(c), <<msg>>))

CallSummaryReturns(c, text) ==
    /\ Frame(c).pc = "summary"
    /\ EBecomeOf(c, SummaryReturnsBody(ECurOf(c), text))

\* ------------------------------------------------------- specifications
InitCommon ==
    /\ tasks = <<>>
    /\ currentTask = Null
    /\ taskHistory = <<>>
    /\ eng = EngIdle
    /\ eng2 = EngIdle
    /\ acts = NoActs
    /\ procs = [p \in Procs |-> NoProc]
    /\ calls = <<>>
    /\ op = Idle
    /\ last = NoLast
    /\ log = <<>>

\* one provider instance of any class, constructed and driven directly
InitProv ==
    /\ InitCommon
    /\ backend = NoBackend
    /\ probe = NoProbe
    /\ \E k \in Kinds, key \in BOOLEAN :
          prov = [i \in Insts |->
                    IF i = 1
                    THEN [kind |-> k, process |-> Null, isReady |-> FALSE,
                          apiKey |-> key /\ k = "openai"]
                    ELSE NoInst]
    /\ providers = {}
    /\ activeProvider = Null

NextProv ==
    \/ SpawnCall(1)
    \/ \E T \in Timeouts : PromptCall(1, T)
    \/ TerminateCall(1)
    \/ \E p \in Procs, ch \in Chars : Data(p, ch)
    \/ \E p \in Procs, ch \in Chars : ErrData(p, ch)
    \/ \E p \in Procs : StdoutEnd(p)
    \/ \E p \in Procs : Close(p)
    \/ \E c \in 1..Len(calls) : CallTimeout(c)
    \/ FrameTimer
    \/ Advance

SpecProv == InitProv /\ [][NextProv]_vars

\* one provider instance whose backend may answer a request late
NextLate ==
    \/ SpawnCall(1)
    \/ \E T \in Timeouts : PromptCall(1, T)
    \/ TerminateCall(1)
    \/ \E p \in Procs, ch \in Chars : Data(p, ch)
    \/ \E p \in Procs : LateData(p)
    \/ \E p \in Procs, ch \in Chars : ErrData(p, ch)
    \/ \E p \in Procs : StdoutEnd(p)
    \/ \E p \in Procs : Close(p)
    \/ \E c \in 1..Len(calls) : CallTimeout(c)
    \/ FrameTimer
    \/ Advance

SpecLate == InitProv /\ [][NextLate]_vars

\* one provider instance that is started and stopped; timers that are due fire
NextStart ==
    \/ SpawnCall(1)
    \/ TerminateCall(1)
    \/ \E p \in Procs, ch \in Chars : Data(p, ch)
    \/ \E p \in Procs : StdoutEnd(p)
    \/ \E p \in Procs : Close(p)
    \/ FrameTimer
    \/ Advance

SpecStart ==
    InitProv /\ [][NextStart]_vars /\ WF_vars(FrameTimer) /\ WF_vars(Advance)

\* the registry, driven through register / setActive / getActive / cleanup
InitReg ==
    /\ InitCommon
    /\ backend = NoBackend
    /\ probe = NoProbe
    /\ prov = [i \in Insts |-> NoInst]
    /\ providers = {}
    /\ activeProvider = Null

NextReg ==
    \/ \E n \in Names : RegisterProvider(n)
    \/ \E n \in Names, key \in BOOLEAN : SetActive(n, key)
    \/ Cleanup
    \/ GetActive
    \/ \E n \in Names, key \in BOOLEAN : CreateProviderCall(n, key)
    \/ \E p \in Procs, ch \in Chars : Data(p, ch)
    \/ \E p \in Procs : StdoutEnd(p)
    \/ \E p \in Procs : Close(p)
    \/ FrameTimer
    \/ Advance

SpecReg == InitReg /\ [][NextReg]_vars

\* the registry's map of provider classes: discovery, registration, lookup
NextDisc ==
    \/ \E probes \in [ProbedClis -> BOOLEAN] : Initialize(probes)
    \/ \E n \in Names : RegisterProvider(n)
    \/ \E n \in Names, key \in BOOLEAN : CreateProviderCall(n, key)
    \/ GetActive
    \/ Cleanup

SpecDisc == InitReg /\ [][NextDisc]_vars

\* ---------------------------------------------- interleaved setActive
\* the registry state changes together with the frame of caller c
ActBecome(s, c, f) ==
    /\ prov' = s.prov
    /\ procs' = s.procs
    /\ calls' = s.calls
    /\ op' = s.op
    /\ last' = s.last
    /\ log' = s.log
    /\ providers' = s.providers
    /\ activeProvider' = s.activeProvider
    /\ acts' = [acts EXCEPT ![c] = f]
    /\ UNCHANGED <<backend, probe, evars>>

\* createProvider() runs to its end when it is called; setActive awaits it
ActCreate(s, c, name, key) ==
    LET cr == CreateProvider(s, name, key)
    IN  ActBecome(cr.st, c, [pc |-> "created", name |-> name, key |-> key,
                             inst |-> cr.inst, res |-> "none"])

\* setActive(name, config) up to its first await: of terminate() when a
\* provider is active, of createProvider() otherwise
ActBegin(c, name, key) ==
    /\ acts[c].pc = "idle"
    /\ acts[c].res = "none"
    /\ name \in providers => FreeInsts(Cur) # {}
    /\ IF activeProvider # Null
       THEN ActBecome(Terminate(Cur, activeProvider), c,
                      [pc |-> "terminated", name |-> name, key |-> key,
                       inst |-> Null, res |-> "none"])
       ELSE ActCreate(Cur, c, name, key)

\* setActive resumes after terminate() and calls createProvider()
ActAfterTerminate(c) ==
    /\ acts[c].pc = "terminated"
    /\ acts[c].name \in providers => FreeInsts(Cur) # {}
    /\ ActCreate(Cur, c, acts[c].name, acts[c].key)

\* setActive resumes after createProvider(): it rejects, or it assigns
\* activeProvider and calls spawn(), which runs to its await or throws
ActAfterCreate(c) ==
    /\ acts[c].pc = "created"
    /\ LET i == acts[c].inst
       IN  IF i = Null
           THEN ActBecome(Cur, c, [acts[c] EXCEPT !.pc = "idle", !.res = "notFound"])
           ELSE /\ SpawnsProcess(Cur, i) => FreeProcs(Cur) # {}
                /\ LET s0 == [Cur EXCEPT !.activeProvider = i]
                       s1 == SpawnStart(Enter(s0, "spawn", i, 0), i)
                       s2 == [s1 EXCEPT !.op = Idle, !.last = NoLast]
                   IN  IF s1.op.name = "idle"
                       THEN ActBecome(s2, c, [acts[c] EXCEPT !.pc = "idle",
                                                             !.res = s1.last.res])
                       ELSE ActBecome(s2, c, [acts[c] EXCEPT !.pc = "spawning"])

\* the wait for readiness of the spawn() is over: spawn() sets the ready flag
\* and returns, and so does setActive
ActSpawned(c) ==
    /\ acts[c].pc = "spawning"
    /\ ActBecome([Cur EXCEPT !.prov[acts[c].inst].isReady = TRUE], c,
                 [acts[c] EXCEPT !.pc = "idle", !.res = "ok"])

\* a registry with every class registered and two callers of setActive
InitActs ==
    /\ InitCommon
    /\ backend = NoBackend
    /\ probe = NoProbe
    /\ prov = [i \in Insts |-> NoInst]
    /\ providers = Names
    /\ activeProvider = Null

NextActs ==
    \/ \E c \in Callers, n \in Names, key \in BOOLEAN : ActBegin(c, n, key)
    \/ \E c \in Callers : ActAfterTerminate(c)
    \/ \E c \in Callers : ActAfterCreate(c)
    \/ \E c \in Callers : ActSpawned(c)

SpecActs == InitActs /\ [][NextActs]_vars

\* the registry switching between providers whose process may refuse a signal
NextSwitch ==
    \/ \E n \in Names : RegisterProvider(n)
    \/ \E n \in Names, key \in BOOLEAN : SetActive(n, key)
    \/ \E n \in Names, key \in BOOLEAN : SetActiveStopRaises(n, key)
    \/ FrameTimer
    \/ Advance

SpecSwitch == InitReg /\ [][NextSwitch]_vars

\* ------------------------------------------------------------- discovery
\* the commands initialize() probes, in its order
ProbeOrder == <<"claude-code", "ollama", "openai", "gcloud">>

nonprobe == <<prov, procs, calls, op, last, log, activeProvider, backend,
              tasks, currentTask, taskHistory, eng, eng2, acts>>

\* LLMProvider.isAvailable(cli) up to the promise it returns
IsAvailableCall(cli) ==
    /\ probe.pc \in {"idle", "done"}
    /\ probe' = [probe EXCEPT !.pc = "waiting", !.caller = "direct", !.k = 0,
                              !.cli = cli, !.res = "none"]
    /\ UNCHANGED <<nonprobe, providers>>

\* ProviderManager.initialize up to its first await
InitializeCall ==
    /\ probe.pc \in {"idle", "done"}
    /\ probe' = [probe EXCEPT !.pc = "waiting", !.caller = "initialize", !.k = 1,
                              !.cli = ProbeOrder[1], !.res = "none"]
    /\ UNCHANGED <<nonprobe, providers>>

\* the 'close' handler of isAvailable: `which` exits with code 0 exactly when
\* the command is on the search path; initialize() resumes with the answer
ProbeClose ==
    /\ probe.pc = "waiting"
    /\ probe.whichRuns
    /\ LET r == probe.cli \in probe.onPath
           reg == IF r /\ probe.cli \in {"claude-code", "ollama"}
                  THEN {probe.cli} ELSE {}
       IN  IF probe.caller = "direct"
           THEN /\ probe' = [probe EXCEPT !.pc = "done",
                                           !.res = IF r THEN "true" ELSE "false"]
                /\ UNCHANGED providers
           ELSE IF probe.k < Len(ProbeOrder)
           THEN /\ probe' = [probe EXCEPT !.k = @ + 1, !.cli = ProbeOrder[probe.k + 1]]
                /\ providers' = providers \cup reg
           ELSE /\ probe' = [probe EXCEPT !.pc = "done", !.res = "none"]
                /\ providers' = providers \cup reg \cup {"mock"}
    /\ UNCHANGED nonprobe

\* `which` cannot be run: the child emits 'error', on which isAvailable has
\* no listener, so the error is thrown out of the event loop
ProbeError ==
    /\ probe.pc = "waiting"
    /\ ~probe.whichRuns
    /\ probe' = [probe EXCEPT !.pc = "crashed"]
    /\ UNCHANGED <<nonprobe, providers>>

\* a registry on a host with any set of the probed commands installed, with
\* or without a `which` that can be run
InitProbe ==
    /\ InitCommon
    /\ backend = NoBackend
    /\ prov = [i \in Insts |-> NoInst]
    /\ providers = {}
    /\ activeProvider = Null
    /\ \E S \in SUBSET ProbedClis, w \in BOOLEAN :
          probe = [NoProbe EXCEPT !.onPath = S, !.whichRuns = w]

NextProbe ==
    \/ \E c \in ProbedClis : IsAvailableCall(c)
    \/ InitializeCall
    \/ ProbeClose
    \/ ProbeError

SpecProbe == InitProbe /\ [][NextProbe]_vars

\* ------------------------------------------- the engine on a real provider
\* the engine's frame and the provider's state change in one step
BecomeBoth(s, e) ==
    /\ prov' = s.prov
    /\ procs' = s.procs
    /\ calls' = s.calls
    /\ op' = s.op
    /\ last' = s.last
    /\ log' = s.log
    /\ providers' = s.providers
    /\ activeProvider' = s.activeProvider
    /\ tasks' = e.tasks
    /\ currentTask' = e.currentTask
    /\ taskHistory' = e.taskHistory
    /\ eng' = e.eng
    /\ UNCHANGED <<eng2, backend, probe, acts>>

Awaiting == {"plan", "step", "summary"}

\* the timeout option of the prompt() of each phase
PhaseTimeout(pc) ==
    CASE pc = "plan" -> PlanTimeout
      [] pc = "step" -> StepTimeout
      [] pc = "summary" -> SummaryTimeout

\* this.providerManager.getActive().prompt(text, { timeout }) up to its await
Send(s, T) == Prompt(Enter(s, "prompt", s.activeProvider, T), s.activeProvider)

\* whether the model has room for the prompt() the frame is about to make
CanSend(s, e) ==
    e.eng.pc \in Awaiting =>
        LET i == s.activeProvider
        IN  /\ s.prov[i].kind # "mock" => Len(s.calls) < MaxCalls
            /\ (s.prov[i].kind \notin {"mock", "base"} /\ SpawnsProcess(s, i))
                  => FreeProcs(s) # {}

\* the frame runs on to its next prompt(), if it has one
Continue(s, e) ==
    /\ CanSend(s, e)
    /\ IF e.eng.pc \in Awaiting
       THEN BecomeBoth(Send(s, PhaseTimeout(e.eng.pc)), e)
       ELSE BecomeBoth(s, e)

\* executeTask up to the await of its planning prompt()
RunExecuteTask(desc) ==
    /\ eng.pc = "idle"
    /\ op.name = "idle"
    /\ Len(tasks) < MaxTasks
    /\ Continue(Cur, ExecuteTaskBody(ECur, desc))

\* the prompt() the frame awaits has settled: executeTask goes on with its
\* reply, or with its error, up to the next prompt()
RunResume ==
    /\ eng.pc \in Awaiting
    /\ op.name = "idle"
    /\ last.op = "prompt"
    /\ LET ok == last.res = "ok"
           e == CASE eng.pc = "plan" ->
                       IF ok
                       THEN PlanReturnsBody(ECur, [text |-> last.text, steps |-> <<>>])
                       ELSE FailTask(ECur, <<last.res>>)
                  [] eng.pc = "step" ->
                       StepReturnsBody(ECur, ok, IF ok THEN last.text ELSE last.res)
                  [] eng.pc = "summary" ->
                       IF ok
                       THEN SummaryReturnsBody(ECur, last.text)
                       ELSE FailTask(ECur, <<last.res>>)
       IN  Continue(Cur, e)

\* a registry in setActive(), at the await of the spawn() of its new active
\* instance, which is of any class
InitRun ==
    /\ tasks = <<>>
    /\ currentTask = Null
    /\ taskHistory = <<>>
    /\ eng = EngIdle
    /\ eng2 = EngIdle
    /\ acts = NoActs
    /\ backend = NoBackend
    /\ probe = NoProbe
    /\ \E k \in Kinds, key \in BOOLEAN :
          LET s0 == [prov |-> [i \in Insts |->
                                 IF i = 1
                                 THEN [kind |-> k, process |-> Null,
                                       isReady |-> FALSE,
                                       apiKey |-> key /\ k = "openai"]
                                 ELSE NoInst],
                     procs |-> [p \in Procs |-> NoProc],
                     calls |-> <<>>, op |-> Idle, last |-> NoLast, log |-> <<>>,
                     providers |-> Names, activeProvider |-> 1]
              s == SpawnStart(Enter(s0, "spawn", 1, 0), 1)
          IN  /\ prov = s.prov
              /\ procs = s.procs
              /\ calls = s.calls
              /\ op = s.op
              /\ last = s.last
              /\ log = s.log
              /\ providers = s.providers
              /\ activeProvider = s.activeProvider

NextRun ==
    \/ \E d \in Descriptions : RunExecuteTask(d)
    \/ RunResume
    \/ \E p \in Procs, ch \in Chars : Data(p, ch)
    \/ \E p \in Procs, ch \in Chars : ErrData(p, ch)
    \/ \E p \in Procs : StdoutEnd(p)
    \/ \E p \in Procs : Close(p)
    \/ \E c \in 1..Len(calls) : CallTimeout(c)
    \/ FrameTimer
    \/ Advance

SpecRun == InitRun /\ [][NextRun]_vars

\* the engine, with or without an activated provider (the mock, started by
\* setActive), and a backend that answers each prompt() or lets it fail
InitEng ==
    /\ InitCommon
    /\ backend = NoBackend
    /\ probe = NoProbe
    /\ providers = {"mock"}
    /\ \E a \in {Null, 1} :
          /\ activeProvider = a
          /\ prov = [i \in Insts |->
                       IF i = a
                       THEN [kind |-> "mock", process |-> Null, isReady |-> TRUE,
                             apiKey |-> FALSE]
                       ELSE NoInst]

NextEng ==
    \/ \E d \in Descriptions : ExecuteTask(d)
    \/ \E m \in SendErrors : PlanFails(m)
    \/ \E r \in PlanReplies : PlanReturns(r)
    \/ \E x \in Outputs : StepReturns(TRUE, x)
    \/ \E m \in SendErrors : StepReturns(FALSE, m)
    \/ \E m \in SendErrors : SummaryFails(m)
    \/ \E r \in Replies : SummaryReturns(r)

SpecEng == InitEng /\ [][NextEng]_vars

\* the engine on a registry whose user calls setActive while a task runs
NextSwap ==
    \/ \E d \in Descriptions : ExecuteTask(d)
    \/ \E m \in SendErrors : PlanFails(m)
    \/ \E r \in PlanReplies : PlanReturns(r)
    \/ \E x \in Outputs : StepReturns(TRUE, x)
    \/ \E m \in SendErrors : StepReturns(FALSE, m)
    \/ \E m \in SendErrors : SummaryFails(m)
    \/ \E r \in Replies : SummaryReturns(r)
    \/ \E n \in Names, key \in BOOLEAN : SetActive(n, key)
    \/ FrameTimer
    \/ Advance

SpecSwap == InitEng /\ [][NextSwap]_vars

\* the engine with two callers whose executeTask calls may overlap
NextOverlap ==
    \/ \E c \in Callers, d \in Descriptions : CallExecuteTask(c, d)
    \/ \E c \in Callers, m \in SendErrors : CallPlanFails(c, m)
    \/ \E c \in Callers, r \in PlanReplies : CallPlanReturns(c, r)
    \/ \E c \in Callers, x \in Outputs : CallStepReturns(c, TRUE, x)
    \/ \E c \in Callers, m \in SendErrors : CallStepReturns(c, FALSE, m)
    \/ \E c \in Callers, m \in SendErrors : CallSummaryFails(c, m)
    \/ \E c \in Callers, r \in Replies : CallSummaryReturns(c, r)

SpecOverlap == InitEng /\ [][NextOverlap]_vars

\* the engine against a started provider whose prompt() returns the same
\* non-empty text to every call
InitConst ==
    /\ InitCommon
    /\ backend \in {r \in PlanReplies : r.text # <<>>}
    /\ probe = NoProbe
    /\ providers = {"mock"}
    /\ activeProvider = 1
    /\ prov = [i \in Insts |->
                 IF i = 1
                 THEN [kind |-> "mock", process |-> Null, isReady |-> TRUE,
                       apiKey |-> FALSE]
                 ELSE NoInst]

ConstPlanReturns == PlanReturns(backend)

ConstStepReturns == StepReturns(TRUE, backend.text)

ConstSummaryReturns == SummaryReturns(backend.text)

NextConst ==
    \/ \E d \in Descriptions : ExecuteTask(d)
    \/ ConstPlanReturns
    \/ ConstStepReturns
    \/ ConstSummaryReturns

SpecConst == InitConst /\ [][NextConst]_vars

\* ------------------------------------------------------------- properties
\* the call in progress, or else the last one that finished
TheCall ==
    IF op.name # "idle"
    THEN [name |-> op.name, inst |-> op.inst, wasReady |-> op.wasReady,
          prev |-> op.prev, done |-> FALSE, res |-> "none"]
    ELSE [name |-> last.op, inst |-> last.inst, wasReady |-> last.wasReady,
          prev |-> last.prev, done |-> TRUE, res |-> last.res]

Did(m) == \E j \in 1..Len(log) : log[j][1] = m

KindOf(i) == IF i = Null THEN "none" ELSE prov[i].kind

\* the instance owns a child process (the mock, which has none: it is started)
Running(i) == prov[i].process # Null \/ (prov[i].kind = "mock" /\ prov[i].isReady)

\* t is o without its leading and trailing white space
IsTrimOf(t, o) ==
    \E a, b \in 0..Len(o) :
        /\ a + Len(t) + b = Len(o)
        /\ \A k \in 1..a : o[k] = " "
        /\ \A k \in 1..b : o[Len(o) - k + 1] = " "
        /\ \A k \in 1..Len(t) : t[k] = o[a + k]
        /\ t # <<>> => (t[1] # " " /\ t[Len(t)] # " ")

\* C1: of the instances the registry made, at most one is running, and it is
\* the active one; in a setActive() made while a provider was active, the
\* previous instance's terminate() comes before the new instance's spawn().
C1_OneActive ==
    /\ \A i \in Insts : Running(i) => i = activeProvider
    /\ Cardinality({i \in Insts : Running(i)}) <= 1
    /\ (TheCall.name = "setActive" /\ TheCall.prev # Null) =>
          \A j \in 1..Len(log) :
              log[j][1] = "spawn" =>
                  \E k \in 1..(j - 1) : log[k] = <<"terminate", TheCall.prev>>

C1_Witness ==
    /\ last.op = "setActive"
    /\ last.res = "ok"
    /\ last.prev # Null
    /\ last.prev # activeProvider
    /\ Did("kill")

\* C5 (as claimed): a prompt() with timeout T on a ready instance is never
\* still pending after more than T ms (30000 when no timeout is given).
C5_TimeoutEnforced ==
    (op.name = "prompt" /\ op.wasReady) => op.elapsed <= TimerDelay(op.T)

\* C6: a prompt() that is waiting ends with the timeout error when its timer
\* fires, with the error pipe's text when the output pipe ends and the error
\* buffer is not empty, and else with the trimmed output buffer; an 'end' or a
\* timer that comes once no call is waiting leaves the delivered outcome as it is.
C6_SendOutcome ==
    [][/\ (op.pc = "promptWait" /\ op'.name = "idle") =>
            \E c \in 1..Len(calls) :
                /\ calls[c].state = "pending"
                /\ last'.op = "prompt"
                /\ IF /\ calls[c].proc # Null
                      /\ procs'[calls[c].proc].ended
                      /\ ~procs[calls[c].proc].ended
                   THEN IF calls[c].error # <<>>
                        THEN last'.res = "backend" /\ last'.text = calls[c].error
                        ELSE last'.res = "ok" /\ IsTrimOf(last'.text, calls[c].output)
                   ELSE calls[c].timer = 0 /\ last'.res = "timeout"
       /\ (/\ op.name = "idle"
           /\ op'.name = "idle"
           /\ calls' # calls \/ \E p \in Procs : procs'[p].ended # procs[p].ended)
              => last' = last]_vars

\* a call timed out and the output pipe ended afterwards
C6_Witness ==
    /\ op.name = "idle"
    /\ last.op = "prompt"
    /\ last.res = "timeout"
    /\ calls = <<>>
    /\ prov[last.inst].process # Null

C7_Base ==
    (TheCall.name = "prompt" /\ KindOf(TheCall.inst) = "base" /\ ~TheCall.wasReady)
        => (TheCall.done /\ TheCall.res = "notReady" /\ log = <<>>)

C7_Variants ==
    (/\ TheCall.name = "prompt"
     /\ KindOf(TheCall.inst) \in {"claude-code", "ollama", "openai"}
     /\ ~TheCall.wasReady)
        => (log # <<>> /\ log[1] = <<"spawn", TheCall.inst>>)

CallInstReady == TheCall.inst # Null /\ IsReady(Cur, TheCall.inst)

C8_AlreadyRunning ==
    [][\A i \in Insts :
          (SpawnCall(i) /\ prov[i].process # Null) =>
              /\ op'.name = "idle"
              /\ last'.op = "spawn"
              /\ last'.res = "alreadyRunning"
              /\ ~Did("fork")'
              /\ prov' = prov
              /\ procs' = procs]_vars

C8_Witness ==
    /\ last.op = "spawn"
    /\ last.res = "alreadyRunning"
    /\ prov[last.inst].process # Null

\* C9 (as claimed): after terminate() the instance is not running: it has no
\* process handle and its ready flag is false.
C9_StopLeavesNotRunning ==
    last.op = "terminate" =>
        (prov[last.inst].process = Null /\ ~prov[last.inst].isReady)

\* C10 (as claimed): after a setActive() that failed there is no active provider.
C10_FailedActivateClears ==
    (last.op = "setActive" /\ last.res # "ok") => activeProvider = Null

FailedCritical(T, k) == T.results[k].status = "failed" /\ ~T.steps[k].optional

\* C2: a task never has more results than steps; a failed result of a step
\* that is not optional is the task's last result, no further step is under
\* way, the task is failed and its error carries that step's message.
C2_CriticalAbort ==
    \A t \in 1..Len(tasks) :
        LET T == tasks[t]
        IN  /\ Len(T.results) <= Len(T.steps)
            /\ \A k \in 1..Len(T.results) :
                  FailedCritical(T, k) =>
                      /\ k = Len(T.results)
                      /\ T.status = "failed"
                      /\ T.error = <<CriticalPrefix, T.results[k].error>>
                      /\ eng.t # t

C2_Witness ==
    \E t \in 1..Len(tasks) :
        /\ tasks[t].status = "failed"
        /\ Len(tasks[t].results) = 1
        /\ Len(tasks[t].steps) = 3
        /\ FailedCritical(tasks[t], 1)

Aligned(T) ==
    /\ Len(T.results) = Len(T.steps)
    /\ \A k \in 1..Len(T.steps) : T.results[k].stepId = T.steps[k].id

\* C3: while every failed result of a task belongs to an optional step, the
\* step loop never fails the task: the task fails only in planning or in
\* finalizing (its plan or summary request), it reaches finalizing and completed
\* only with one result per step, in the order of the steps.
C3_OptionalTolerance ==
    \A t \in 1..Len(tasks) :
        LET T == tasks[t]
        IN  (\A k \in 1..Len(T.results) : ~FailedCritical(T, k)) =>
                /\ T.status = "failed" =>
                      T.trail[Len(T.trail) - 1] \in {"planning", "finalizing"}
                /\ T.status \in {"finalizing", "completed"} => Aligned(T)
                /\ (T.status = "failed" /\ T.trail[Len(T.trail) - 1] = "finalizing")
                      => Aligned(T)

C3_Witness ==
    \E t \in 1..Len(tasks) :
        /\ tasks[t].status = "completed"
        /\ Len(tasks[t].steps) = 3
        /\ Len(tasks[t].results) = 3
        /\ ~tasks[t].steps[1].optional
        /\ tasks[t].steps[2].optional
        /\ ~tasks[t].steps[3].optional
        /\ tasks[t].results[1].status = "completed"
        /\ tasks[t].results[2].status = "failed"
        /\ tasks[t].results[3].status = "completed"

StatusMoves ==
    {<<"planning", "executing">>, <<"executing", "finalizing">>,
     <<"finalizing", "completed">>, <<"planning", "failed">>,
     <<"executing", "failed">>, <<"finalizing", "failed">>}

\* C4: the values assigned to a task's status start with planning and move
\* only planning -> executing -> finalizing -> completed, or from one of the
\* first three to failed; nothing is assigned after completed or failed.
C4_StatusMachine ==
    \A t \in 1..Len(tasks) :
        LET T == tasks[t]
        IN  /\ T.trail[1] = "planning"
            /\ T.status = T.trail[Len(T.trail)]
            /\ \A j \in 1..(Len(T.trail) - 1) :
                  \/ (T.trail[j] = "planning" /\ T.trail[j + 1] = "planning")
                  \/ <<T.trail[j], T.trail[j + 1]>> \in StatusMoves

C4_Witness ==
    \E t \in 1..Len(tasks) :
        /\ tasks[t].status = "failed"
        /\ tasks[t].trail[Len(tasks[t].trail) - 1] = "executing"


SameInstances == \A i \in Insts : prov'[i].kind = prov[i].kind

\* C11: createProvider(name) and setActive(name) with a name that is not
\* registered fail with the not-found error, construct no instance, call no
\* spawn() and leave the active reference as it was.
C11_UnknownName ==
    [][\A n \in Names, k \in BOOLEAN :
          (/\ op.name = "idle"
           /\ n \notin providers
           /\ SetActive(n, k) \/ CreateProviderCall(n, k)) =>
              /\ op'.name = "idle"
              /\ last'.res = "notFound"
              /\ SameInstances
              /\ ~Did("spawn")'
              /\ ~Did("fork")'
              /\ activeProvider' = activeProvider]_vars

C11_Witness ==
    /\ last.op = "setActive"
    /\ last.res = "notFound"
    /\ last.prev # Null
    /\ Cardinality(providers) >= 2


ProseReply == [text |-> <<"x">>, steps |-> <<>>]

HasBraces(text) ==
    \E i, j \in 1..Len(text) : i < j /\ text[i] = "{" /\ text[j] = "}"

\* C14: when the planning reply has no brace-delimited substring, or the
\* extracted substring does not parse, the task gets exactly two steps, both
\* non-optional: step 1 without dependencies, step 2 with the task's
\* description and depending on step 1; the task goes on to execute step 1.
\* (Every such reply is parsed to the same plan as a reply of plain prose, and
\* a task that receives that reply gets the two steps.)
C14_FallbackPlan ==
    /\ \A r \in PlanReplies, d \in Descriptions :
          (~HasBraces(r.text) \/ ~JsonParses(JsonMatch(r.text))) =>
              ParsePlan(r, d) = ParsePlan(ProseReply, d)
    /\ [][(eng.pc = "plan" /\ PlanReturns(ProseReply)) =>
              LET T == tasks'[eng.t]
              IN  /\ Len(T.steps) = 2
                  /\ ~T.steps[1].optional
                  /\ T.steps[1].dependencies = {}
                  /\ ~T.steps[2].optional
                  /\ T.steps[2].description = tasks[eng.t].description
                  /\ T.steps[2].dependencies = {T.steps[1].id}
                  /\ T.status = "executing"
                  /\ eng'.pc = "step"
                  /\ eng'.i = 0]_vars

C14_Witness ==
    \E t \in 1..Len(tasks) :
        /\ tasks[t].steps = CreateFallbackPlan(tasks[t].description).steps
        /\ Len(tasks[t].results) = 2
        /\ tasks[t].status = "completed"


\* C15 (as claimed): a task that is waiting for its planning reply fails only
\* when the planning prompt() itself fails; no reply that prompt() returns
\* takes the task from planning to failed.
C15_ReplyNeverFailsTask ==
    [][(eng.pc = "plan" /\ tasks'[eng.t].status = "failed") =>
           \E m \in SendErrors : PlanFails(m)]_vars


\* C16 (as claimed): against a provider that returns the same non-empty text
\* to every prompt(), a run of executeTask that has ended has ended with status
\* completed, at least one step and a non-empty summary.
C16_ConstBackendCompletes ==
    \A t \in 1..Len(tasks) :
        tasks[t].endTime =>
            /\ tasks[t].status = "completed"
            /\ Len(tasks[t].steps) >= 1
            /\ tasks[t].summary # <<>>


BecomesReady(i) == ~prov[i].isReady /\ prov'[i].isReady

\* C17: a spawn() that is waiting for readiness always comes to the end of the
\* wait, marker or no marker; the ready flag goes from false to true, and
\* 'ready' is emitted, only in the step in which the wait of a spawn() on that
\* instance ends.
C17_ReadinessResolves ==
    /\ (op.pc = "waitReady") ~> (op.pc # "waitReady")
    /\ [][\A i \in Insts :
             (BecomesReady(i) \/ (Did("ready")' /\ log' # log)) =>
                 /\ op.pc \in {"waitReady", "mockStart"}
                 /\ op'.pc \notin {"waitReady", "mockStart"}
                 /\ i = op.inst => (prov'[i].isReady /\ Did("ready")')
                 /\ i # op.inst => ~BecomesReady(i)]_vars

\* no marker has come and the fallback delay of a Claude Code instance is over
C17_Witness ==
    /\ op.pc = "waitReady"
    /\ op.timer = 0
    /\ prov[op.inst].kind = "claude-code"
    /\ procs[op.proc].state = "running"


\* C18 (as claimed): a spawn() whose child process could not run the command
\* (it has ended and closed by the time the wait for readiness is over) fails,
\* leaves the ready flag false and emits no 'ready'.
C18_SpawnFailureSurfaces ==
    [][(/\ op.name = "spawn"
        /\ op.pc = "waitReady"
        /\ procs[op.proc].state = "none"
        /\ op'.name = "idle") =>
           /\ last'.res # "ok"
           /\ prov'[op.inst].process = Null
           /\ ~prov'[op.inst].isReady
           /\ ~Did("ready")']_vars


\* C19 (as claimed): once the process of an instance has exited and the handle
\* and the ready flag are cleared, the instance stays not running: its ready
\* flag does not become true while it has no process handle.
C19_ExitedStaysDown ==
    [][\A i \in Insts :
          (prov[i].kind # "mock" /\ prov[i].process = Null /\ ~prov[i].isReady)
              => ~prov'[i].isReady]_vars


\* C20: after initialize(), whatever the availability probes returned, the mock
\* provider is registered, and every other name that initialize() registered
\* is a probed command whose probe returned true.
C20_Discover ==
    [][\A probes \in [ProbedClis -> BOOLEAN] :
          (op.name = "idle" /\ last'.op = "initialize" /\ Initialize(probes)) =>
              /\ "mock" \in providers'
              /\ providers \subseteq providers'
              /\ \A n \in providers' \ (providers \cup {"mock"}) :
                    n \in ProbedClis /\ probes[n]]_vars

\* initialize() on an empty registry when no probe returned true
C20_Witness ==
    /\ last.op = "initialize"
    /\ last.res = "ok"
    /\ providers = {"mock"}
    /\ \A i \in Insts : prov[i].kind = "none"


\* C21 (as claimed): a call of isAvailable(command) that is no longer waiting
\* has returned a boolean, true exactly when the command is on the search
\* path; no error has been raised.
C21_ProbeReturnsBoolean ==
    (probe.caller = "direct" /\ probe.pc # "waiting") =>
        /\ probe.pc = "done"
        /\ probe.res = IF probe.cli \in probe.onPath THEN "true" ELSE "false"


\* C22: when a prompt() of the engine fails (by its timeout or by an error of
\* the backend), in the plan phase the task goes from planning to failed with
\* that message; in the execute phase the step gets a result with status
\* failed and that message, and the task fails exactly when the step is not
\* optional; in the finalize phase the task goes from finalizing to failed.
C22_SendFailurePerPhase ==
    [][\A m \in SendErrors :
        LET t == eng.t
            T == tasks[t]
            U == tasks'[t]
        IN  /\ (eng.pc = "plan" /\ PlanFails(m)) =>
                  /\ T.status = "planning"
                  /\ U.status = "failed"
                  /\ U.trail = Append(T.trail, "failed")
                  /\ U.error = <<m>>
            /\ (eng.pc = "step" /\ StepReturns(FALSE, m)) =>
                  LET k == eng.i + 1
                  IN  /\ T.status = "executing"
                      /\ Len(T.results) = eng.i
                      /\ Len(U.results) = k
                      /\ U.results[k].stepId = T.steps[k].id
                      /\ U.results[k].status = "failed"
                      /\ U.results[k].error = m
                      /\ (U.status = "failed") <=> ~T.steps[k].optional
                      /\ T.steps[k].optional =>
                            U.status = IF k < Len(T.steps) THEN "executing"
                                                           ELSE "finalizing"
            /\ (eng.pc = "summary" /\ SummaryFails(m)) =>
                  /\ T.status = "finalizing"
                  /\ U.status = "failed"
                  /\ U.trail = Append(T.trail, "failed")
                  /\ U.error = <<m>>
      ]_vars

C22_Witness ==
    \E t \in 1..Len(tasks) :
        LET T == tasks[t]
        IN  /\ T.status = "failed"
            /\ T.trail[Len(T.trail) - 1] = "finalizing"
            /\ T.error \in {<<m>> : m \in SendErrors}
            /\ Len(T.results) = 2
            /\ T.steps[1].optional
            /\ T.results[1].status = "failed"
            /\ T.results[1].error \in SendErrors
            /\ T.results[2].status = "completed"


\* C23 (as claimed): a call of executeTask never ends by throwing: whatever
\* failed inside, the call returns to its caller.
C23_NothingEscapes ==
    eng.res # "threw"


\* C24 (as claimed): the tasks in the history are exactly the tasks whose run
\* has ended (completed or failed), each once, in the order their runs ended.
C24_EndedOnceInHistory ==
    /\ \A t \in 1..Len(tasks) :
          (tasks[t].status \in {"completed", "failed"}) <=>
              Cardinality({k \in 1..Len(taskHistory) : taskHistory[k] = t}) = 1
    /\ \A j, k \in 1..Len(taskHistory) : j < k => taskHistory[j] < taskHistory[k]

\* C26 (as claimed): while a run of executeTask is under way currentTask is
\* its task, and once the run has ended, by completion or by failure,
\* currentTask is null.
C26_CurrentTaskTracksRun ==
    IF eng.pc = "idle" THEN currentTask = Null ELSE currentTask = eng.t


\* C25 (as claimed): at any time at most one task of the engine has a status
\* that is not terminal, and at most one executeTask call is waiting for a
\* prompt() on the active provider, also when the calls overlap.
C25_OneTaskAtATime ==
    /\ Cardinality({t \in 1..Len(tasks) :
                       tasks[t].status \in {"planning", "executing", "finalizing"}}) <= 1
    /\ ~(eng.pc \in {"plan", "step", "summary"} /\ eng2.pc \in {"plan", "step", "summary"})


\* C27 (as claimed): a setActive() during which the stop of the active
\* provider raised an error still succeeds: the requested provider is
\* created, started and recorded as active.
C27_StopFailureSwallowed ==
    (op.name = "idle" /\ last.op = "setActive"
        /\ \E i \in Insts : \E k \in 1..Len(log) : log[k] = <<"killFailed", i>>)
      => /\ last.res = "ok"
         /\ activeProvider # Null
         /\ activeProvider # last.prev


\* C28 (as claimed): on the mock provider a prompt() on an instance that is
\* not ready (never started, or stopped) fails with the not-ready error, and
\* a spawn() on a started instance fails with the already-running error.
C28_MockSameContract ==
    (TheCall.done /\ KindOf(TheCall.inst) = "mock") =>
        /\ (TheCall.name = "prompt" /\ ~TheCall.wasReady) => TheCall.res = "notReady"
        /\ (TheCall.name = "spawn" /\ TheCall.wasReady) => TheCall.res = "alreadyRunning"


\* the number of "{" less the number of "}" in text[a..b]
BraceDepth(text, a, b) ==
    Cardinality({k \in a..b : text[k] = "{"}) - Cardinality({k \in a..b : text[k] = "}"})

\* the first substring of the text that opens with "{" and ends where that
\* brace is closed; <<>> when there is none
BalancedMatch(text) ==
    LET pairs == {ab \in (1..Len(text)) \X (1..Len(text)) :
                     /\ ab[1] < ab[2]
                     /\ text[ab[1]] = "{"
                     /\ BraceDepth(text, ab[1], ab[2]) = 0
                     /\ \A c \in ab[1]..(ab[2] - 1) : BraceDepth(text, ab[1], c) > 0}
    IN  IF pairs = {} THEN <<>>
        ELSE LET a == Min({ab[1] : ab \in pairs})
                 b == Min({ab[2] : ab \in {x \in pairs : x[1] = a}})
             IN  SubSeq(text, a, b)

\* C29 (as claimed): the plan a task gets from a planning reply is the plan
\* parsed from the first balanced brace-delimited substring of the reply;
\* what follows that substring does not change it.
C29_FirstBalancedGroup ==
    \A t \in 1..Len(tasks) :
        (eng.t # t \/ eng.pc # "plan") =>
            LET p == ParsePlan([backend EXCEPT !.text = BalancedMatch(backend.text)],
                               tasks[t].description)
            IN  /\ tasks[t].hasSteps = p.hasSteps
                /\ tasks[t].steps = p.steps


\* C30: the results of a task are the results of its first steps, in the
\* order of the steps (results[k].stepId = steps[k].id); 'stepCompleted' has
\* been emitted once for each recorded result, in that order; and the step
\* whose prompt() is in flight is the one after the last recorded result, so
\* a step is requested only once the result of the step before it is recorded.
C30_StepsInOrder ==
    \A t \in 1..Len(tasks) :
        LET T == tasks[t]
        IN  /\ Len(T.results) <= Len(T.steps)
            /\ \A k \in 1..Len(T.results) : T.results[k].stepId = T.steps[k].id
            /\ T.notified = [k \in 1..Len(T.results) |-> T.results[k].stepId]
            /\ (eng.t = t /\ eng.pc = "step") =>
                   /\ eng.i = Len(T.results)
                   /\ eng.i < Len(T.steps)
            /\ (eng.t = t /\ eng.pc = "plan") => T.results = <<>>
            /\ (eng.t = t /\ eng.pc = "summary") => Len(T.results) = Len(T.steps)

C30_Witness ==
    /\ eng.pc = "step"
    /\ eng.i = 2
    /\ Len(tasks[eng.t].steps) = 3
    /\ Len(tasks[eng.t].results) = 2
    /\ tasks[eng.t].notified = <<1, 2>>
    /\ tasks[eng.t].results[1].status = "failed"


\* the notifications that end a task; how many members of seq are in S
Terminal == {"taskCompleted", "taskFailed"}
CountOf(seq, S) == Cardinality({k \in 1..Len(seq) : seq[k] \in S})

\* C31: the first notification of a task is taskStarted, emitted once; every
\* status the run assigns is notified (taskStatusChanged for planning,
\* executing and finalizing, the terminal notification for completed and
\* failed) and every recorded result is followed by stepCompleted; a task
\* that has ended has exactly one terminal notification, taskCompleted for
\* completed and taskFailed for failed, as its last one, and a task that has
\* not ended has none.
C31_NotificationOrder ==
    \A t \in 1..Len(tasks) :
        LET T == tasks[t]
            E == T.events
        IN  /\ E[1] = "taskStarted"
            /\ CountOf(E, {"taskStarted"}) = 1
            /\ CountOf(E, {"taskStatusChanged"}) =
                  CountOf(Tail(T.trail), {"planning", "executing", "finalizing"})
            /\ CountOf(E, {"stepCompleted"}) = Len(T.results)
            /\ Len(E) = Len(T.trail) + Len(T.results)
            /\ IF T.status \in {"completed", "failed"}
               THEN /\ CountOf(E, Terminal) = 1
                    /\ E[Len(E)] = IF T.status = "completed" THEN "taskCompleted"
                                                             ELSE "taskFailed"
               ELSE CountOf(E, Terminal) = 0

C31_Witness ==
    \E t \in 1..Len(tasks) :
        tasks[t].events = <<"taskStarted", "taskStatusChanged", "taskStatusChanged",
                            "stepCompleted", "stepCompleted", "taskFailed">>


\* C32: a task has a summary only if its status is completed and an error
\* only if its status is failed, never both, and a completed task has a
\* summary.
C32_SummaryXorError ==
    \A t \in 1..Len(tasks) :
        LET T == tasks[t]
        IN  /\ T.summary # "undefined" => T.status = "completed"
            /\ T.error # <<>> => T.status = "failed"
            /\ ~(T.summary # "undefined" /\ T.error # <<>>)
            /\ T.status = "completed" => T.summary # "undefined"

C32_Witness ==
    \E t \in 1..Len(tasks) :
        /\ tasks[t].status = "completed"
        /\ tasks[t].summary \in Outputs
        /\ tasks[t].error = <<>>
        /\ \E k \in 1..Len(tasks[t].results) : tasks[t].results[k].status = "failed"


\* C33 (as claimed): a prompt() made by executeTask starts no provider
\* process and stops none, and executeTask leaves the registry's active
\* reference as it was.
C33_EngineOnlySends ==
    /\ activeProvider = 1
    /\ (tasks # <<>> /\ TheCall.name = "prompt") =>
          /\ ~Did("fork")
          /\ ~Did("terminate")
          /\ ~Did("kill")


\* C34: once the planning phase of a task has ended, no step of the engine
\* changes the task's steps: executing, finalizing and failing leave the
\* sequence as it was when the task entered executing.
C34_StepsFrozen ==
    [][\A t \in 1..Len(tasks) :
          (eng.t # t \/ eng.pc # "plan") => tasks'[t].steps = tasks[t].steps]_vars

C34_Witness ==
    \E t \in 1..Len(tasks) :
        /\ tasks[t].status = "failed"
        /\ Len(tasks[t].steps) = 3
        /\ Len(tasks[t].results) = 2
        /\ tasks[t].steps[1].optional
        /\ ~tasks[t].steps[2].optional


\* C35 (as claimed): on every process-backed instance the ready flag is true
\* only while the instance holds a process handle.
C35_ReadyOnlyWithProcess ==
    \A i \in Insts :
        (prov[i].kind \notin {"none", "mock"} /\ prov[i].isReady)
            => prov[i].process # Null

\* C36 (as claimed): the 'close' of a process that is no longer the one the
\* instance holds (it was terminated and a new one was started) leaves the
\* instance's process handle and ready flag as they are.
C36_LateCloseHarmless ==
    [][\A p \in Procs :
          (/\ procs[p].state = "running"
           /\ prov[procs[p].owner].process # Null
           /\ prov[procs[p].owner].process # p
           /\ Close(p))
              => prov'[procs[p].owner] = prov[procs[p].owner]]_vars


\* C37 (as claimed): when the setActive() calls of two callers have both
\* finished, however they interleaved, no instance other than the active
\* one holds a running process.
C37_NoOrphanProcess ==
    (\A c \in Callers : acts[c].pc = "idle" /\ acts[c].res # "none") =>
        \A i \in Insts : i # activeProvider => prov[i].process = Null


\* C38 (as claimed): all the prompt() calls of one task, for its plan, its
\* steps and its summary, go to the same provider instance, also when
\* setActive() is called while the task runs.
C38_OneInstancePerTask ==
    \A t \in 1..Len(tasks) :
        \A j, k \in 1..Len(tasks[t].sentTo) : tasks[t].sentTo[j] = tasks[t].sentTo[k]


\* C39 (as claimed): the text a prompt() returns holds nothing the backend
\* produced for an earlier request whose prompt() had timed out.
C39_NoLateBytes ==
    (last.op = "prompt" /\ last.res = "ok") =>
        \A k \in 1..Len(last.text) : last.text[k] # LateChunk


OnBase == prov[1].kind = "base"

\* C40: on a base instance the output pipe of a process ends at most once; a
\* prompt() of the engine returns a response only in the step in which the
\* pipe of the instance's process ends; a prompt() made once that pipe has
\* ended finishes with a timeout or a not-ready error; so of the prompt()
\* calls of a task at most the first gets a response: a task whose plan
\* request succeeded has only failed step results and is never completed.
C40_OneResponsePerProcess ==
    [][OnBase =>
        /\ \A p \in Procs :
              (procs[p].state = "running" /\ procs[p].ended
                  /\ procs'[p].state = "running") => procs'[p].ended
        /\ (op.name = "prompt" /\ op'.name = "idle" /\ last'.res = "ok") =>
              LET p == prov[1].process
              IN  /\ p # Null
                  /\ ~procs[p].ended
                  /\ procs'[p].ended
        /\ (/\ last'.op = "prompt"
            /\ op'.name = "idle"
            /\ last' # last
            /\ prov[1].process = Null \/ procs[prov[1].process].ended)
              => last'.res \in {"timeout", "notReady"}
        /\ \A t \in 1..Len(tasks') :
              /\ tasks'[t].status # "completed"
              /\ \A k \in 1..Len(tasks'[t].results) :
                    /\ tasks'[t].results[k].status = "failed"
                    /\ tasks'[t].results[k].error \in {"timeout", "notReady"}
      ]_vars

C40_Witness ==
    /\ OnBase
    /\ \E t \in 1..Len(tasks) :
          /\ tasks[t].status = "failed"
          /\ Len(tasks[t].steps) = 2
          /\ Len(tasks[t].results) = 1
          /\ tasks[t].results[1].error = "timeout"
          /\ prov[1].process # Null

====
